---- MODULE Spec2Model ----
(***************************************************************************)
(* The directory layer (filesys/directory.c) and the file system calls     *)
(* (userprog/syscall.c) of the Pintos kernel of this repository.           *)
(*                                                                         *)
(* A path is a sequence of one-character strings; a file name is a path    *)
(* without "/".  An inode is named by its sector.  The inode layer, the    *)
(* free map and filesys_create/open/remove/chdir are not among the source  *)
(* files; they are modelled from the interface the specification gives.    *)
(***************************************************************************)
EXTENDS Integers, Sequences, FiniteSets, TLC

\* ---------------------------------------------------------------- bounds
MaxSector == 4      \* sectors 1..MaxSector hold inodes
MaxCalls == 4       \* system calls issued in one run
MaxSteps == 4       \* calls of the directory interface in one run
MaxLen == 1300      \* the longest write to the console

\* ------------------------------------------------------ program constants
ROOT_DIR_SECTOR == 1
NAME_MAX == 14
NULL == 0

Sectors == 1..MaxSector
Procs == {"p1", "p2"}
NoThread == "none"

SLASH == "/"
DOT == <<".">>
DOTDOT == <<".", ".">>
LongName == <<"a","a","a","a","a","a","a","a","a","a","a","a","a","a","a">>

NoEntry == [inode_sector |-> 0, name |-> <<>>, in_use |-> FALSE]

Min(S) == CHOOSE x \in S : \A y \in S : x <= y

VARIABLES
  fs,            \* the disk and the table of open inodes
  cwd,           \* cwd[p]: the sector of thread p's working directory, or NULL
  files,         \* files[p]: the file_elem records of thread p
  next_fd,       \* alloc_fd's static counter
  filesys_lock,  \* the holder of filesys_lock, or NoThread
  pc,            \* pc[p]: where thread p is inside its system call
  th,            \* th[p]: the locals of that system call
  kernel,        \* "running" or "panic"
  ncalls,        \* system calls issued so far
  last,          \* the last call of the directory interface and its result
  held,          \* held[s]: the handles on s the caller of the interface holds
  opened,        \* the descriptors open has returned so far
  gone,          \* the paths remove has returned true for, no create or mkdir since
  console,       \* the transfers putbuf got from the write under way
  handles        \* handles[h]: a struct dir the caller enumerates with

vars == <<fs, cwd, files, next_fd, filesys_lock, pc, th, kernel, ncalls, last, held,
          opened, gone, console, handles>>

\* ------------------------------------------------------------ inode layer
\* The state of the file system: the free map (used), the on-disk inode of
\* each sector (is_dir, parent, entries: the directory table) and the
\* in-memory inode (open_cnt, removed).
FreshFs ==
  [used     |-> {ROOT_DIR_SECTOR},
   is_dir   |-> [s \in Sectors |-> s = ROOT_DIR_SECTOR],
   parent   |-> [s \in Sectors |-> IF s = ROOT_DIR_SECTOR THEN ROOT_DIR_SECTOR ELSE NULL],
   entries  |-> [s \in Sectors |-> <<>>],
   open_cnt |-> [s \in Sectors |-> 0],
   removed  |-> [s \in Sectors |-> FALSE]]

inode_open(f, s) == [f EXCEPT !.open_cnt[s] = @ + 1]

inode_reopen(f, s) == [f EXCEPT !.open_cnt[s] = @ + 1]

\* The last close of a removed inode gives its sector back to the free map.
inode_close(f, s) ==
  IF s = NULL THEN f
  ELSE IF f.open_cnt[s] > 1 THEN [f EXCEPT !.open_cnt[s] = @ - 1]
  ELSE IF f.removed[s]
       THEN [f EXCEPT !.open_cnt[s] = 0, !.removed[s] = FALSE,
                      !.used = @ \ {s}, !.is_dir[s] = FALSE,
                      !.parent[s] = NULL, !.entries[s] = <<>>]
       ELSE [f EXCEPT !.open_cnt[s] = 0]

inode_remove(f, s) == [f EXCEPT !.removed[s] = TRUE]

inode_add_parent(f, parent_sector, child_sector) ==
  [f EXCEPT !.parent[child_sector] = parent_sector]

inode_create(f, s, isdir) ==
  [f EXCEPT !.used = @ \cup {s}, !.is_dir[s] = isdir,
            !.parent[s] = NULL, !.entries[s] = <<>>]

\* free_map_allocate: the first free sector, or NULL when the disk is full.
free_map_allocate(f) ==
  IF Sectors \ f.used = {} THEN NULL ELSE Min(Sectors \ f.used)

\* -------------------------------------------------------------- directory
dir_open_root(f) == [fs |-> inode_open(f, ROOT_DIR_SECTOR), dir |-> ROOT_DIR_SECTOR]

dir_reopen(f, dir) == [fs |-> inode_reopen(f, dir), dir |-> dir]

dir_close(f, dir) == inode_close(f, dir)

\* lookup without the test of in_use.
lookup_any_slot(f, dir, name) ==
  LET hits == {i \in 1..Len(f.entries[dir]) : f.entries[dir][i].name = name}
  IN IF hits = {} THEN 0 ELSE Min(hits)

\* The slot (1-based) of the first in_use entry named name, or 0.
lookup(f, dir, name) ==
  LET hits == {i \in 1..Len(f.entries[dir]) :
                 f.entries[dir][i].in_use /\ f.entries[dir][i].name = name}
  IN IF hits = {} THEN 0 ELSE Min(hits)

dir_lookup(f, dir, name) ==
  LET i == lookup(f, dir, name)
  IN IF i # 0
     THEN [fs |-> inode_open(f, f.entries[dir][i].inode_sector),
           inode |-> f.entries[dir][i].inode_sector]
     ELSE [fs |-> f, inode |-> NULL]

\* dir_add_check with the root as the parent of every new entry.
dir_add_check_root_parent(f, dir, name, inode_sector) ==
  IF name = <<>> \/ Len(name) > NAME_MAX THEN [ok |-> FALSE, fs |-> f]
  ELSE IF lookup(f, dir, name) # 0 THEN [ok |-> FALSE, fs |-> f]
  ELSE [ok |-> TRUE, fs |-> inode_add_parent(f, ROOT_DIR_SECTOR, inode_sector)]

\* dir_add_check with the arguments of inode_add_parent exchanged.
dir_add_check_parent_swapped(f, dir, name, inode_sector) ==
  IF name = <<>> \/ Len(name) > NAME_MAX THEN [ok |-> FALSE, fs |-> f]
  ELSE IF lookup(f, dir, name) # 0 THEN [ok |-> FALSE, fs |-> f]
  ELSE [ok |-> TRUE, fs |-> inode_add_parent(f, inode_sector, dir)]

\* dir_add up to the parent link: the name check, the duplicate check and
\* inode_add_parent.
dir_add_check(f, dir, name, inode_sector) ==
  IF name = <<>> \/ Len(name) > NAME_MAX THEN [ok |-> FALSE, fs |-> f]
  ELSE IF lookup(f, dir, name) # 0 THEN [ok |-> FALSE, fs |-> f]
  ELSE [ok |-> TRUE, fs |-> inode_add_parent(f, dir, inode_sector)]

\* The first slot that is not in_use, or the end of the table.
free_slot(f, dir) ==
  LET free == {i \in 1..Len(f.entries[dir]) : ~f.entries[dir][i].in_use}
  IN IF free = {} THEN Len(f.entries[dir]) + 1 ELSE Min(free)

write_slot(f, dir, ofs, e) ==
  IF ofs = Len(f.entries[dir]) + 1
  THEN [f EXCEPT !.entries[dir] = Append(@, e)]
  ELSE [f EXCEPT !.entries[dir][ofs] = e]

\* dir_add from the scan for a free slot to the write of the record.
dir_add_write(f, dir, name, inode_sector) ==
  write_slot(f, dir, free_slot(f, dir),
             [inode_sector |-> inode_sector, name |-> name, in_use |-> TRUE])

dir_add(f, dir, name, inode_sector) ==
  LET c == dir_add_check(f, dir, name, inode_sector)
  IN IF c.ok THEN [ok |-> TRUE, fs |-> dir_add_write(c.fs, dir, name, inode_sector)]
     ELSE c

\* dir_add when inode_write_at writes less than the record (the directory
\* cannot grow): the checks and inode_add_parent have run, nothing is
\* written, and dir_add returns false.
dir_add_short(f, dir, name, inode_sector) ==
  LET c == dir_add_check(f, dir, name, inode_sector)
  IN IF c.ok THEN [ok |-> FALSE, fs |-> c.fs] ELSE c

\* dir_is_empty without the test of in_use.
dir_is_empty_always(f, inode) == TRUE

dir_is_empty(f, inode) ==
  \A i \in 1..Len(f.entries[inode]) : ~f.entries[inode][i].in_use

\* dir_remove_check without the three tests of a directory.
dir_remove_check_unguarded(f, dir, name) ==
  LET ofs == lookup(f, dir, name) IN
  IF ofs = 0
  THEN [ok |-> FALSE, fs |-> f, ofs |-> 0, e |-> NoEntry, inode |-> NULL]
  ELSE [ok |-> TRUE, fs |-> inode_open(f, f.entries[dir][ofs].inode_sector),
        ofs |-> ofs, e |-> f.entries[dir][ofs],
        inode |-> f.entries[dir][ofs].inode_sector]

\* dir_remove up to its guards: the lookup, inode_open and the three tests.
\* inode stays open in the result when the entry was found.
dir_remove_check(f, dir, name) ==
  LET ofs == lookup(f, dir, name) IN
  IF ofs = 0
  THEN [ok |-> FALSE, fs |-> f, ofs |-> 0, e |-> NoEntry, inode |-> NULL]
  ELSE LET e == f.entries[dir][ofs]
           inode == e.inode_sector
           g == inode_open(f, inode)
       IN [ok |-> ~(g.is_dir[inode] /\ g.open_cnt[inode] > 1)
                  /\ ~(g.is_dir[inode] /\ inode = 1)
                  /\ ~(g.is_dir[inode] /\ ~dir_is_empty(g, inode)),
           fs |-> g, ofs |-> ofs, e |-> e, inode |-> inode]

\* dir_remove from the erase of the entry to inode_remove.
dir_remove_erase(f, dir, ofs, e, inode) ==
  inode_remove(write_slot(f, dir, ofs, [e EXCEPT !.in_use = FALSE]), inode)

\* dir_remove without inode_close after a guard refused.
dir_remove_keeps_inode(f, dir, name) ==
  LET c == dir_remove_check(f, dir, name)
  IN IF c.ok
     THEN [ok |-> TRUE,
           fs |-> inode_close(dir_remove_erase(c.fs, dir, c.ofs, c.e, c.inode), c.inode)]
     ELSE [ok |-> FALSE, fs |-> c.fs]

dir_remove(f, dir, name) ==
  LET c == dir_remove_check(f, dir, name)
  IN IF c.ok
     THEN [ok |-> TRUE, fs |-> inode_close(dir_remove_erase(c.fs, dir, c.ofs, c.e, c.inode), c.inode)]
     ELSE [ok |-> FALSE, fs |-> inode_close(c.fs, c.inode)]

\* dir_readdir without the test of in_use.
dir_readdir_any_slot(f, inode, pos) ==
  IF pos >= Len(f.entries[inode]) THEN [ok |-> FALSE, pos |-> pos, name |-> <<>>]
  ELSE [ok |-> TRUE, pos |-> pos + 1, name |-> f.entries[inode][pos + 1].name]

\* dir_readdir from position pos (in records): the next in_use entry at or
\* after pos, with the position after it; or false at the end of the table.
RECURSIVE dir_readdir(_, _, _)
dir_readdir(f, inode, pos) ==
  IF pos >= Len(f.entries[inode]) THEN [ok |-> FALSE, pos |-> pos, name |-> <<>>]
  ELSE IF f.entries[inode][pos + 1].in_use
       THEN [ok |-> TRUE, pos |-> pos + 1, name |-> f.entries[inode][pos + 1].name]
       ELSE dir_readdir(f, inode, pos + 1)

dir_get_parent(f, dir) ==
  [fs |-> inode_open(f, f.parent[dir]), inode |-> f.parent[dir]]

\* ---------------------------------------------------------- path resolver
\* strtok_r with the delimiter "/": the components of a path, in order.
RECURSIVE tokenize(_, _, _)
tokenize(s, cur, acc) ==
  IF s = <<>> THEN (IF cur = <<>> THEN acc ELSE Append(acc, cur))
  ELSE IF Head(s) = SLASH
       THEN tokenize(Tail(s), <<>>, IF cur = <<>> THEN acc ELSE Append(acc, cur))
       ELSE tokenize(Tail(s), Append(cur, Head(s)), acc)

Tokens(path) == tokenize(path, <<>>, <<>>)

\* The while loop of get_containing_dir: toks starts at token, and the loop
\* runs while a next_token follows it.  A failed step returns NULL.
RECURSIVE gcd_loop(_, _, _)
gcd_loop(f, dir, toks) ==
  IF Len(toks) < 2 THEN [fs |-> f, dir |-> dir]
  ELSE IF Head(toks) = DOT THEN gcd_loop(f, dir, Tail(toks))
  ELSE LET r == IF Head(toks) = DOTDOT THEN dir_get_parent(f, dir)
                ELSE dir_lookup(f, dir, Head(toks))
       IN IF r.inode = NULL THEN [fs |-> r.fs, dir |-> NULL]
          ELSE IF r.fs.is_dir[r.inode]
               THEN gcd_loop(dir_close(r.fs, dir), r.inode, Tail(toks))
               ELSE gcd_loop(inode_close(r.fs, r.inode), dir, Tail(toks))

\* The directory the walk starts from.
gcd_start(f, c, path) ==
  IF (path # <<>> /\ path[1] = SLASH) \/ c = NULL
  THEN dir_open_root(f) ELSE dir_reopen(f, c)

\* get_containing_dir of a path that has a component.
get_containing_dir(f, c, path) ==
  LET s == gcd_start(f, c, path) IN gcd_loop(s.fs, s.dir, Tokens(path))

\* get_file_name of a path that has a component: the last one.
get_file_name(path) == Tokens(path)[Len(Tokens(path))]

\* A path without a component: get_containing_dir reads next_token, which
\* was never set, and get_file_name passes a null token to strlen.
NoToken(path) == Tokens(path) = <<>>

\* ------------------------------------------------- what the claims speak of
\* The slots of directory d that are in use.
InUse(f, d) == {i \in 1..Len(f.entries[d]) : f.entries[d][i].in_use}

\* Whether a component of the path before the last one names a plain file
\* on the walk from directory dir.
RECURSIVE walk_hits_file(_, _, _)
walk_hits_file(f, dir, toks) ==
  IF Len(toks) < 2 THEN FALSE
  ELSE IF Head(toks) = DOT THEN walk_hits_file(f, dir, Tail(toks))
  ELSE IF Head(toks) = DOTDOT THEN walk_hits_file(f, f.parent[dir], Tail(toks))
  ELSE LET i == lookup(f, dir, Head(toks)) IN
       IF i = 0 THEN FALSE
       ELSE IF f.is_dir[f.entries[dir][i].inode_sector]
            THEN walk_hits_file(f, f.entries[dir][i].inode_sector, Tail(toks))
            ELSE TRUE

HitsFile(f, c, path) ==
  walk_hits_file(f, IF (path # <<>> /\ path[1] = SLASH) \/ c = NULL
                    THEN ROOT_DIR_SECTOR ELSE c, Tokens(path))

\* ------------------------------------------------------------ system calls
\* The paths the processes pass to the system calls.
SysPaths ==
  { <<"/", "a">>, <<"/", "a", "/", "b">>, <<"/", "a", "/", "b", "/", "a">>,
    <<"b">>, <<"/">> }

NoCall ==
  [op |-> "none", path |-> <<>>, is_dir |-> FALSE, locked |-> FALSE,
   dir |-> NULL, leaf |-> <<>>, sector |-> NULL, ok |-> FALSE,
   ofs |-> 0, e |-> NoEntry, inode |-> NULL, fd |-> 0, refs |-> 0,
   empty |-> FALSE, after_remove |-> FALSE, exit_status |-> 0,
   prog |-> <<>>, length |-> 0, acquired |-> 0, released |-> 0]

\* The handles on sector s that some thread holds: descriptors, working
\* directories, and the handles of the system calls under way.
Refs(fl, cw, t, s) ==
  Cardinality({x \in UNION {{<<p, fe>> : fe \in fl[p]} : p \in Procs} : x[2].sector = s})
  + Cardinality({p \in Procs : cw[p] = s})
  + Cardinality({p \in Procs : t[p].dir = s})
  + Cardinality({p \in Procs : t[p].inode = s})

\* ------------------------------------------------------------- user memory
\* The addresses a user program passes: the null pointer, the address of a
\* string of its image, an address of no page of its, and the first kernel
\* address.  ArgAddr is esp + 1, the place of the first argument on its stack.
\* An address is kept as the 32-bit int it converts to: the addresses from
\* 0x80000000 on are the negative ones, and PHYS_BASE is 0xc0000000.
PHYS_BASE == -1073741824
StringAddr == 134512640
UnmappedAddr == 268435456
ArgAddr == PHYS_BASE - 16

UserPtrs == {NULL, StringAddr, UnmappedAddr, PHYS_BASE}

is_user_vaddr(address) == address >= 0 \/ address < PHYS_BASE

pagedir_get_page(p, address) ==
  IF address \in {StringAddr, ArgAddr} THEN address ELSE NULL

\* check_valid_address with the test of the page directory left out.
check_valid_address_no_pagedir(p, address) ==
  ~(address = NULL \/ ~is_user_vaddr(address))

\* check_valid_address: TRUE when it returns, FALSE when it calls exit(-1).
check_valid_address(p, address) ==
  ~(address = NULL \/ ~is_user_vaddr(address) \/ pagedir_get_page(p, address) = NULL)

\* last before any call of the directory interface.
NoLast ==
  [op |-> "none", dir |-> NULL, name |-> <<>>, path |-> <<>>, target |-> NULL,
   ok |-> FALSE, found |-> FALSE, was_dir |-> FALSE, was_empty |-> FALSE,
   was_slots |-> FALSE, was_open |-> 0, before |-> FreshFs.open_cnt,
   leaf |-> <<>>, cwd |-> NULL, tokens |-> FALSE, hit_file |-> FALSE,
   proc |-> NoThread, ptr |-> NULL, fd |-> 0, looked |-> 0, ret |-> 0,
   invoked |-> FALSE, length |-> 0, short |-> FALSE,
   parent_before |-> NULL, parent_after |-> NULL, new_entry |-> FALSE]

\* The handles the caller enumerates directories with.
Handles == {"h1", "h2"}

\* A struct dir not opened yet.  names, ret, tab and dirty are not fields of
\* struct dir: they keep the names dir_readdir returned on the handle, what
\* its last call returned, the table the handle was opened on, and whether a
\* call of dir_readdir found the table changed.
NoHandle ==
  [dir |-> NULL, pos |-> 0, names |-> <<>>, ret |-> "none", tab |-> <<>>,
   dirty |-> FALSE]

Init ==
  /\ fs = FreshFs
  /\ cwd = [p \in Procs |-> NULL]
  /\ files = [p \in Procs |-> {}]
  /\ next_fd = 2
  /\ filesys_lock = NoThread
  /\ pc = [p \in Procs |-> "idle"]
  /\ th = [p \in Procs |-> NoCall]
  /\ kernel = "running"
  /\ ncalls = 0
  /\ last = NoLast
  /\ held = [s \in Sectors |-> 0]
  /\ opened = {}
  /\ gone = {}
  /\ console = <<>>
  /\ handles = [h \in Handles |-> NoHandle]

CanCall(p) == kernel = "running" /\ pc[p] = "idle" /\ ncalls < MaxCalls

\* The return to the user program; th[p].ok or th[p].fd is what it returns.
Return(p) ==
  /\ pc' = [pc EXCEPT ![p] = "idle"]
  /\ th' = [th EXCEPT ![p] = NoCall]

\* exit: the thread ends with this status and never returns.
exit(p, status) ==
  /\ pc' = [pc EXCEPT ![p] = "exited"]
  /\ th' = [th EXCEPT ![p] = [NoCall EXCEPT !.exit_status = status]]

\* What gone keeps of a path: the directory its resolution starts from, and
\* the path.
PathKey(c, path) ==
  <<IF (path # <<>> /\ path[1] = SLASH) \/ c = NULL THEN ROOT_DIR_SECTOR ELSE c, path>>

\* Whether a create or mkdir has begun and not returned.
CreateUnderWay == \E q \in Procs : th[q].op \in {"create", "mkdir"}

\* create: lock_acquire, then filesys_create.
SysCreate(p, path) ==
  /\ CanCall(p)
  /\ filesys_lock = NoThread
  /\ filesys_lock' = p
  /\ pc' = [pc EXCEPT ![p] = "fc_resolve"]
  /\ th' = [th EXCEPT ![p] = [NoCall EXCEPT !.op = "create", !.path = path, !.locked = TRUE]]
  /\ ncalls' = ncalls + 1
  /\ gone' = {}
  /\ UNCHANGED <<fs, cwd, files, next_fd, kernel, last, held, opened, console, handles>>

\* mkdir: filesys_create, with no lock_acquire before it.
SysMkdir(p, path) ==
  /\ CanCall(p)
  /\ pc' = [pc EXCEPT ![p] = "fc_resolve"]
  /\ th' = [th EXCEPT ![p] = [NoCall EXCEPT !.op = "mkdir", !.path = path, !.is_dir = TRUE]]
  /\ ncalls' = ncalls + 1
  /\ gone' = {}
  /\ UNCHANGED <<fs, cwd, files, next_fd, filesys_lock, kernel, last, held, opened,
                 console, handles>>

\* filesys_create up to dir_add: the containing directory, the leaf name,
\* a free sector and the new inode.
FilesysCreateResolve(p) ==
  /\ kernel = "running" /\ pc[p] = "fc_resolve"
  /\ IF NoToken(th[p].path)
     THEN /\ kernel' = "panic"
          /\ UNCHANGED <<fs, pc, th>>
     ELSE LET r == get_containing_dir(fs, cwd[p], th[p].path)
              leaf == get_file_name(th[p].path)
              sec == free_map_allocate(r.fs)
          IN /\ kernel' = kernel
             /\ IF r.dir # NULL /\ sec # NULL
                THEN /\ fs' = inode_create(r.fs, sec, th[p].is_dir)
                     /\ th' = [th EXCEPT ![p].dir = r.dir, ![p].leaf = leaf, ![p].sector = sec]
                     /\ pc' = [pc EXCEPT ![p] = "da_check"]
                ELSE /\ fs' = r.fs
                     /\ th' = [th EXCEPT ![p].dir = r.dir, ![p].leaf = leaf]
                     /\ pc' = [pc EXCEPT ![p] = "fc_done"]
  /\ UNCHANGED <<cwd, files, next_fd, filesys_lock, ncalls, last, held, opened, gone,
                 console, handles>>

DirAddCheck(p) ==
  /\ kernel = "running" /\ pc[p] = "da_check"
  /\ LET c == dir_add_check(fs, th[p].dir, th[p].leaf, th[p].sector)
     IN /\ fs' = c.fs
        /\ pc' = [pc EXCEPT ![p] = IF c.ok THEN "da_write" ELSE "fc_done"]
  /\ UNCHANGED <<cwd, files, next_fd, filesys_lock, th, kernel, ncalls, last, held,
                 opened, gone, console, handles>>

DirAddWrite(p) ==
  /\ kernel = "running" /\ pc[p] = "da_write"
  /\ fs' = dir_add_write(fs, th[p].dir, th[p].leaf, th[p].sector)
  /\ th' = [th EXCEPT ![p].ok = TRUE]
  /\ pc' = [pc EXCEPT ![p] = "fc_done"]
  /\ UNCHANGED <<cwd, files, next_fd, filesys_lock, kernel, ncalls, last, held, opened,
                 gone, console, handles>>

\* The end of filesys_create: the sector goes back on failure, the
\* containing directory is closed; create then releases the lock.
free_map_release(f, s) ==
  [f EXCEPT !.used = @ \ {s}, !.is_dir[s] = FALSE, !.parent[s] = NULL, !.entries[s] = <<>>]

FilesysCreateDone(p) ==
  /\ kernel = "running" /\ pc[p] = "fc_done"
  /\ fs' = dir_close(IF ~th[p].ok /\ th[p].sector # NULL
                     THEN free_map_release(fs, th[p].sector) ELSE fs,
                     th[p].dir)
  /\ filesys_lock' = IF th[p].locked THEN NoThread ELSE filesys_lock
  /\ Return(p)
  /\ UNCHANGED <<cwd, files, next_fd, kernel, ncalls, last, held, opened, gone, console, handles>>

\* mkdir of the empty path returns false at once.
SysMkdirEmpty(p) ==
  /\ CanCall(p)
  /\ ncalls' = ncalls + 1
  /\ UNCHANGED <<fs, cwd, files, next_fd, filesys_lock, pc, th, kernel, last, held,
                 opened, gone, console, handles>>

\* remove: lock_acquire, then filesys_remove.
SysRemove(p, path) ==
  /\ CanCall(p)
  /\ filesys_lock = NoThread
  /\ filesys_lock' = p
  /\ pc' = [pc EXCEPT ![p] = "fr_resolve"]
  /\ th' = [th EXCEPT ![p] = [NoCall EXCEPT !.op = "remove", !.path = path, !.locked = TRUE]]
  /\ ncalls' = ncalls + 1
  /\ UNCHANGED <<fs, cwd, files, next_fd, kernel, last, held, opened, gone, console, handles>>

FilesysRemoveResolve(p) ==
  /\ kernel = "running" /\ pc[p] = "fr_resolve"
  /\ IF NoToken(th[p].path)
     THEN /\ kernel' = "panic"
          /\ UNCHANGED <<fs, pc, th>>
     ELSE LET r == get_containing_dir(fs, cwd[p], th[p].path)
          IN /\ kernel' = kernel
             /\ fs' = r.fs
             /\ th' = [th EXCEPT ![p].dir = r.dir, ![p].leaf = get_file_name(th[p].path)]
             /\ pc' = [pc EXCEPT ![p] = IF r.dir # NULL THEN "dr_check" ELSE "fr_done"]
  /\ UNCHANGED <<cwd, files, next_fd, filesys_lock, ncalls, last, held, opened, gone,
                 console, handles>>

\* dir_remove to the end of its guards; the inode found is open after it.
\* refs: the handles on the target that threads hold when the guards run,
\* the one dir_remove opened among them; empty: whether its table has no
\* in_use entry then.
DirRemoveCheck(p) ==
  /\ kernel = "running" /\ pc[p] = "dr_check"
  /\ LET c == dir_remove_check(fs, th[p].dir, th[p].leaf)
         t == [th EXCEPT ![p].ofs = c.ofs, ![p].e = c.e, ![p].inode = c.inode]
     IN /\ fs' = c.fs
        /\ th' = [t EXCEPT ![p].refs = IF c.inode = NULL THEN 0
                                        ELSE Refs(files, cwd, t, c.inode),
                           ![p].empty = (c.inode # NULL /\ InUse(fs, c.inode) = {})]
        /\ pc' = [pc EXCEPT ![p] = IF c.ok THEN "dr_erase" ELSE "dr_failed"]
  /\ UNCHANGED <<cwd, files, next_fd, filesys_lock, kernel, ncalls, last, held, opened,
                 gone, console, handles>>

DirRemoveErase(p) ==
  /\ kernel = "running" /\ pc[p] = "dr_erase"
  /\ fs' = inode_close(dir_remove_erase(fs, th[p].dir, th[p].ofs, th[p].e, th[p].inode),
                       th[p].inode)
  /\ th' = [th EXCEPT ![p].ok = TRUE, ![p].inode = NULL]
  /\ pc' = [pc EXCEPT ![p] = "fr_done"]
  /\ UNCHANGED <<cwd, files, next_fd, filesys_lock, kernel, ncalls, last, held, opened,
                 gone, console, handles>>

\* The done label after a failed guard or lookup: inode_close.
DirRemoveFailed(p) ==
  /\ kernel = "running" /\ pc[p] = "dr_failed"
  /\ fs' = inode_close(fs, th[p].inode)
  /\ th' = [th EXCEPT ![p].inode = NULL]
  /\ pc' = [pc EXCEPT ![p] = "fr_done"]
  /\ UNCHANGED <<cwd, files, next_fd, filesys_lock, kernel, ncalls, last, held, opened,
                 gone, console, handles>>

FilesysRemoveDone(p) ==
  /\ kernel = "running" /\ pc[p] = "fr_done"
  /\ fs' = dir_close(fs, th[p].dir)
  /\ filesys_lock' = NoThread
  /\ Return(p)
  /\ gone' = IF th[p].ok /\ ~CreateUnderWay
             THEN gone \cup {PathKey(cwd[p], th[p].path)} ELSE gone
  /\ UNCHANGED <<cwd, files, next_fd, kernel, ncalls, last, held, opened, console, handles>>

\* filesys_open: the leaf is looked up in its containing directory, which is
\* closed again; the inode found stays open, as the file or directory handle.
filesys_open(f, c, path) ==
  LET r == get_containing_dir(f, c, path) IN
  IF r.dir = NULL THEN [fs |-> r.fs, inode |-> NULL]
  ELSE LET l == dir_lookup(r.fs, r.dir, get_file_name(path))
       IN [fs |-> dir_close(l.fs, r.dir), inode |-> l.inode]

\* open: the empty name returns -1 before any lock is taken.
SysOpenEmpty(p) ==
  /\ CanCall(p)
  /\ ncalls' = ncalls + 1
  /\ UNCHANGED <<fs, cwd, files, next_fd, filesys_lock, pc, th, kernel, last, held,
                 opened, gone, console, handles>>

SysOpen(p, path) ==
  /\ CanCall(p)
  /\ filesys_lock = NoThread
  /\ filesys_lock' = p
  /\ pc' = [pc EXCEPT ![p] = "fo_body"]
  /\ th' = [th EXCEPT ![p] = [NoCall EXCEPT !.op = "open", !.path = path, !.locked = TRUE,
                                           !.after_remove = PathKey(cwd[p], path) \in gone]]
  /\ ncalls' = ncalls + 1
  /\ UNCHANGED <<fs, cwd, files, next_fd, kernel, last, held, opened, gone, console, handles>>

\* filesys_open and lock_release; a null file makes open return -1.
FilesysOpen(p) ==
  /\ kernel = "running" /\ pc[p] = "fo_body"
  /\ IF NoToken(th[p].path)
     THEN /\ kernel' = "panic"
          /\ UNCHANGED <<fs, pc, th, filesys_lock>>
     ELSE LET r == filesys_open(fs, cwd[p], th[p].path)
          IN /\ kernel' = kernel
             /\ fs' = r.fs
             /\ filesys_lock' = NoThread
             /\ th' = [th EXCEPT ![p].inode = r.inode, ![p].locked = FALSE,
                                 ![p].fd = IF r.inode = NULL THEN -1 ELSE 0,
                                 ![p].after_remove =
                                    @ /\ PathKey(cwd[p], th[p].path) \in gone]
             /\ pc' = [pc EXCEPT ![p] = IF r.inode = NULL THEN "open_done" ELSE "open_ins"]
  /\ UNCHANGED <<cwd, files, next_fd, ncalls, last, held, opened, gone, console, handles>>

\* alloc_fd without the increment of the counter.
alloc_fd_no_increment(fd) == [fd |-> fd, next |-> fd]

\* alloc_fd: the static counter, read and then incremented.
alloc_fd(fd) == [fd |-> fd, next |-> fd + 1]

\* The second critical section of open: the file_elem gets its descriptor
\* and goes to the end of the thread's list.
OpenInsert(p) ==
  /\ kernel = "running" /\ pc[p] = "open_ins"
  /\ filesys_lock = NoThread
  /\ LET a == alloc_fd(next_fd)
     IN /\ next_fd' = a.next
        /\ files' = [files EXCEPT ![p] = @ \cup
                       {[fd |-> a.fd, isdir |-> fs.is_dir[th[p].inode],
                         sector |-> th[p].inode, pos |-> 0]}]
        /\ th' = [th EXCEPT ![p].fd = a.fd, ![p].inode = NULL, ![p].ok = TRUE]
  /\ pc' = [pc EXCEPT ![p] = "open_done"]
  /\ UNCHANGED <<fs, cwd, filesys_lock, kernel, ncalls, last, held, opened, gone, console, handles>>

OpenReturn(p) ==
  /\ kernel = "running" /\ pc[p] = "open_done"
  /\ Return(p)
  /\ opened' = IF th[p].fd # -1 THEN opened \cup {th[p].fd} ELSE opened
  /\ UNCHANGED <<fs, cwd, files, next_fd, filesys_lock, kernel, ncalls, last, held, gone,
                 console, handles>>

\* find_file_elem over the lists of all threads.
find_file_elem_any(fl, p, fd) == {fe \in UNION {fl[q] : q \in Procs} : fe.fd = fd}

\* find_file_elem: the file_elem of the running thread with this fd.
find_file_elem(fl, p, fd) == {fe \in fl[p] : fe.fd = fd}

\* close: an unknown fd ends the process through exit(-1); a known one is
\* closed under the lock.
SysClose(p, fd) ==
  /\ CanCall(p)
  /\ ncalls' = ncalls + 1
  /\ IF find_file_elem(files, p, fd) = {}
     THEN /\ exit(p, -1)
          /\ UNCHANGED filesys_lock
     ELSE /\ filesys_lock = NoThread
          /\ filesys_lock' = p
          /\ pc' = [pc EXCEPT ![p] = "close_body"]
          /\ th' = [th EXCEPT ![p] = [NoCall EXCEPT !.op = "close", !.fd = fd, !.locked = TRUE]]
  /\ UNCHANGED <<fs, cwd, files, next_fd, kernel, last, held, opened, gone, console, handles>>

CloseBody(p) ==
  /\ kernel = "running" /\ pc[p] = "close_body"
  /\ LET fe == CHOOSE x \in find_file_elem(files, p, th[p].fd) : TRUE
     IN /\ fs' = inode_close(fs, fe.sector)
        /\ files' = [files EXCEPT ![p] = @ \ {fe}]
  /\ filesys_lock' = NoThread
  /\ Return(p)
  /\ UNCHANGED <<cwd, next_fd, kernel, ncalls, last, held, opened, gone, console, handles>>

\* filesys_chdir: the leaf is looked up like in filesys_open; a directory
\* found replaces the thread's working directory.
filesys_chdir(f, c, path) ==
  LET r == filesys_open(f, c, path) IN
  IF r.inode = NULL THEN [fs |-> r.fs, cwd |-> c, ok |-> FALSE]
  ELSE IF ~r.fs.is_dir[r.inode]
       THEN [fs |-> inode_close(r.fs, r.inode), cwd |-> c, ok |-> FALSE]
       ELSE [fs |-> dir_close(r.fs, c), cwd |-> r.inode, ok |-> TRUE]

\* chdir: filesys_chdir, with no lock_acquire before it.
SysChdir(p, path) ==
  /\ CanCall(p)
  /\ ncalls' = ncalls + 1
  /\ IF NoToken(path)
     THEN /\ kernel' = "panic"
          /\ UNCHANGED <<fs, cwd>>
     ELSE LET r == filesys_chdir(fs, cwd[p], path)
          IN /\ kernel' = kernel
             /\ fs' = r.fs
             /\ cwd' = [cwd EXCEPT ![p] = r.cwd]
  /\ UNCHANGED <<files, next_fd, filesys_lock, pc, th, last, held, opened, gone, console, handles>>

Next ==
  \/ \E p \in Procs, path \in SysPaths : SysCreate(p, path)
  \/ \E p \in Procs, path \in SysPaths : SysMkdir(p, path)
  \/ \E p \in Procs : SysMkdirEmpty(p)
  \/ \E p \in Procs : FilesysCreateResolve(p)
  \/ \E p \in Procs : DirAddCheck(p)
  \/ \E p \in Procs : DirAddWrite(p)
  \/ \E p \in Procs : FilesysCreateDone(p)
  \/ \E p \in Procs, path \in SysPaths : SysRemove(p, path)
  \/ \E p \in Procs : FilesysRemoveResolve(p)
  \/ \E p \in Procs : DirRemoveCheck(p)
  \/ \E p \in Procs : DirRemoveErase(p)
  \/ \E p \in Procs : DirRemoveFailed(p)
  \/ \E p \in Procs : FilesysRemoveDone(p)
  \/ \E p \in Procs : SysOpenEmpty(p)
  \/ \E p \in Procs, path \in SysPaths : SysOpen(p, path)
  \/ \E p \in Procs : FilesysOpen(p)
  \/ \E p \in Procs : OpenInsert(p)
  \/ \E p \in Procs : OpenReturn(p)
  \/ \E p \in Procs, fd \in 2..next_fd : SysClose(p, fd)
  \/ \E p \in Procs : CloseBody(p)
  \/ \E p \in Procs, path \in SysPaths : SysChdir(p, path)

Spec == Init /\ [][Next]_vars

\* ---------------------------------------------------- directory interface
\* The functions of directory.c called one at a time by one kernel thread
\* (p1), as filesys.c calls them with the lock held.
Caller == "p1"

ApiNames == { <<"a">>, <<"b">>, <<>>, LongName }

ApiPaths ==
  { <<"/", "a", "/", "b">>, <<"a", "/", ".", ".", "/", "a", "/", "b">>,
    <<"a", "/", "b">>, <<"b", "/", ".", ".", "/", "a">>,
    <<"/", "a", "/", "b", "/", "a">>, <<"/", "b", "/", "a">>,
    <<"/">>, <<"/", "/">>, <<".">>, <<".", ".">>, <<".", ".", "/", ".">>,
    <<"a">> }

Dirs(f) == {s \in f.used : f.is_dir[s]}

CanStep == kernel = "running" /\ ncalls < MaxSteps

SysVars == <<files, next_fd, filesys_lock, pc, th, opened, gone, console, handles>>

\* A new inode linked into directory d under name: free_map_allocate,
\* inode_create and dir_add on a handle opened for the call; the sector goes
\* back when dir_add fails.
ApiAdd(d, name, isdir) ==
  /\ CanStep
  /\ d \in Dirs(fs)
  /\ free_map_allocate(fs) # NULL
  /\ LET sec == free_map_allocate(fs)
         g == inode_create(inode_open(fs, d), sec, isdir)
         r == dir_add(g, d, name, sec)
     IN /\ fs' = dir_close(IF r.ok THEN r.fs ELSE free_map_release(r.fs, sec), d)
        /\ last' = [NoLast EXCEPT !.op = "add", !.dir = d, !.name = name,
                                  !.target = sec, !.ok = r.ok,
                                  !.found = lookup(fs, d, name) # 0,
                                  !.parent_before = g.parent[sec],
                                  !.parent_after = r.fs.parent[sec],
                                  !.new_entry = (InUse(r.fs, d) # InUse(g, d))]
  /\ ncalls' = ncalls + 1
  /\ UNCHANGED <<cwd, kernel, held>> /\ UNCHANGED SysVars

\* The same when the write of the record comes back short.
ApiAddShort(d, name, isdir) ==
  /\ CanStep
  /\ d \in Dirs(fs)
  /\ free_map_allocate(fs) # NULL
  /\ LET sec == free_map_allocate(fs)
         g == inode_create(inode_open(fs, d), sec, isdir)
         r == dir_add_short(g, d, name, sec)
     IN /\ fs' = dir_close(free_map_release(r.fs, sec), d)
        /\ last' = [NoLast EXCEPT !.op = "add", !.dir = d, !.name = name,
                                  !.target = sec, !.ok = r.ok, !.short = TRUE,
                                  !.found = lookup(fs, d, name) # 0,
                                  !.parent_before = g.parent[sec],
                                  !.parent_after = r.fs.parent[sec],
                                  !.new_entry = (InUse(r.fs, d) # InUse(g, d))]
  /\ ncalls' = ncalls + 1
  /\ UNCHANGED <<cwd, kernel, held>> /\ UNCHANGED SysVars

\* dir_add of the root directory's own sector under a name in d.
ApiAddRoot(d, name) ==
  /\ CanStep
  /\ d \in Dirs(fs)
  /\ LET r == dir_add(inode_open(fs, d), d, name, ROOT_DIR_SECTOR)
     IN /\ fs' = dir_close(r.fs, d)
        /\ last' = [NoLast EXCEPT !.op = "add", !.dir = d, !.name = name,
                                  !.target = ROOT_DIR_SECTOR, !.ok = r.ok,
                                  !.found = lookup(fs, d, name) # 0]
  /\ ncalls' = ncalls + 1
  /\ UNCHANGED <<cwd, kernel, held>> /\ UNCHANGED SysVars

\* dir_remove of name in d.  last keeps what held of the target before.
ApiRemove(d, name) ==
  /\ CanStep
  /\ d \in Dirs(fs)
  /\ LET i == lookup(fs, d, name)
         t == IF i = 0 THEN NULL ELSE fs.entries[d][i].inode_sector
         r == dir_remove(inode_open(fs, d), d, name)
     IN /\ fs' = dir_close(r.fs, d)
        /\ last' = [NoLast EXCEPT !.op = "remove", !.dir = d, !.name = name,
                      !.target = t, !.ok = r.ok, !.found = i # 0,
                      !.was_dir = (t # NULL /\ fs.is_dir[t]),
                      !.was_empty = (t # NULL /\ InUse(fs, t) = {}),
                      !.was_slots = (t # NULL /\ fs.entries[t] # <<>>),
                      !.was_open = IF t = NULL THEN 0 ELSE fs.open_cnt[t]]
  /\ ncalls' = ncalls + 1
  /\ UNCHANGED <<cwd, kernel, held>> /\ UNCHANGED SysVars

\* dir_open(inode_open(d)): a handle the caller keeps.
ApiOpen(d) ==
  /\ CanStep
  /\ d \in Dirs(fs)
  /\ fs' = inode_open(fs, d)
  /\ held' = [held EXCEPT ![d] = @ + 1]
  /\ last' = [NoLast EXCEPT !.op = "open", !.dir = d]
  /\ ncalls' = ncalls + 1
  /\ UNCHANGED <<cwd, kernel>> /\ UNCHANGED SysVars

\* dir_close of a handle the caller keeps.
ApiClose(d) ==
  /\ CanStep
  /\ held[d] > 0
  /\ fs' = dir_close(fs, d)
  /\ held' = [held EXCEPT ![d] = @ - 1]
  /\ last' = [NoLast EXCEPT !.op = "close", !.dir = d]
  /\ ncalls' = ncalls + 1
  /\ UNCHANGED <<cwd, kernel>> /\ UNCHANGED SysVars

\* The thread's working directory becomes a handle on d.
ApiChdir(d) ==
  /\ CanStep
  /\ d \in Dirs(fs)
  /\ fs' = dir_close(inode_open(fs, d), cwd[Caller])
  /\ cwd' = [cwd EXCEPT ![Caller] = d]
  /\ last' = [NoLast EXCEPT !.op = "chdir", !.dir = d]
  /\ ncalls' = ncalls + 1
  /\ UNCHANGED <<kernel, held>> /\ UNCHANGED SysVars

\* get_containing_dir and get_file_name of a path with a component.  The
\* caller keeps the directory returned.
ApiResolve(path) ==
  /\ CanStep
  /\ ~NoToken(path)
  /\ LET r == get_containing_dir(fs, cwd[Caller], path)
     IN /\ fs' = r.fs
        /\ held' = IF r.dir = NULL THEN held ELSE [held EXCEPT ![r.dir] = @ + 1]
        /\ last' = [NoLast EXCEPT !.op = "resolve", !.path = path, !.dir = r.dir,
                      !.ok = r.dir # NULL, !.leaf = get_file_name(path),
                      !.before = fs.open_cnt, !.cwd = cwd[Caller], !.tokens = TRUE,
                      !.hit_file = HitsFile(fs, cwd[Caller], path)]
  /\ ncalls' = ncalls + 1
  /\ UNCHANGED <<cwd, kernel>> /\ UNCHANGED SysVars

\* The same of a path without a component.  token is null and next_token
\* was never set: either the loop is not entered and the start directory
\* is returned, or the loop is entered and strcmp gets the null token.
\* get_file_name then passes the null token to strlen.
ApiResolveNoToken(path, entered) ==
  /\ CanStep
  /\ NoToken(path)
  /\ LET r == gcd_start(fs, cwd[Caller], path)
     IN /\ fs' = r.fs
        /\ last' = [NoLast EXCEPT !.op = "resolve", !.path = path,
                      !.dir = IF entered THEN NULL ELSE r.dir,
                      !.before = fs.open_cnt, !.cwd = cwd[Caller]]
  /\ kernel' = "panic"
  /\ ncalls' = ncalls + 1
  /\ UNCHANGED <<cwd, held>> /\ UNCHANGED SysVars

NextDir ==
  \/ \E d \in Sectors, name \in ApiNames, isdir \in BOOLEAN : ApiAdd(d, name, isdir)
  \/ \E d \in Sectors, name \in ApiNames, isdir \in BOOLEAN : ApiAddShort(d, name, isdir)
  \/ \E d \in Sectors, name \in ApiNames : ApiRemove(d, name)
  \/ \E d \in Sectors : ApiOpen(d)
  \/ \E d \in Sectors : ApiClose(d)
  \/ \E d \in Sectors : ApiChdir(d)
  \/ \E path \in ApiPaths : ApiResolve(path)
  \/ \E path \in ApiPaths, entered \in BOOLEAN : ApiResolveNoToken(path, entered)

SpecDir == Init /\ [][NextDir]_vars

\* The same interface with dir_add also called on the root's own sector,
\* which no system call does: entries whose target is the root exist.
NextRoot ==
  \/ NextDir
  \/ \E d \in Sectors, name \in ApiNames : ApiAddRoot(d, name)

SpecRoot == Init /\ [][NextRoot]_vars

\* ------------------------------------------------------------ enumeration
\* dir_open(inode_open(d)): a new struct dir on directory d, at position 0.
EnumOpen(h, d) ==
  /\ kernel = "running"
  /\ handles[h].dir = NULL
  /\ d \in Dirs(fs)
  /\ fs' = inode_open(fs, d)
  /\ handles' = [handles EXCEPT ![h] = [NoHandle EXCEPT !.dir = d, !.tab = fs.entries[d]]]
  /\ UNCHANGED <<cwd, files, next_fd, filesys_lock, pc, th, kernel, ncalls, last, held,
                 opened, gone, console>>

\* dir_readdir on the handle.
EnumReaddir(h) ==
  /\ kernel = "running"
  /\ handles[h].dir # NULL
  /\ LET r == dir_readdir(fs, handles[h].dir, handles[h].pos)
     IN handles' = [handles EXCEPT
                      ![h].pos = r.pos,
                      ![h].names = IF r.ok THEN Append(@, r.name) ELSE @,
                      ![h].ret = IF r.ok THEN "true" ELSE "false",
                      ![h].dirty = @ \/ fs.entries[handles[h].dir] # handles[h].tab]
  /\ UNCHANGED <<fs, cwd, files, next_fd, filesys_lock, pc, th, kernel, ncalls, last, held,
                 opened, gone, console>>

EnumNames == { <<"a">>, <<"b">> }

NextEnum ==
  \/ \E d \in Sectors, name \in EnumNames, isdir \in BOOLEAN : ApiAdd(d, name, isdir)
  \/ \E d \in Sectors, name \in EnumNames : ApiRemove(d, name)
  \/ \E h \in Handles, d \in Sectors : EnumOpen(h, d)
  \/ \E h \in Handles : EnumReaddir(h)

\* Directories that are changed by dir_add and dir_remove and enumerated
\* through two handles.
SpecEnum == Init /\ [][NextEnum]_vars

\* ------------------------------------------------- whole system calls
\* filesys_create as one step: what FilesysCreateResolve, dir_add and
\* FilesysCreateDone do in a row.
filesys_create(f, c, path, isdir) ==
  LET r == get_containing_dir(f, c, path)
      sec == free_map_allocate(r.fs)
  IN IF r.dir = NULL \/ sec = NULL
     THEN [ok |-> FALSE, fs |-> dir_close(r.fs, r.dir)]
     ELSE LET a == dir_add(inode_create(r.fs, sec, isdir), r.dir, get_file_name(path), sec)
          IN [ok |-> a.ok,
              fs |-> dir_close(IF a.ok THEN a.fs ELSE free_map_release(a.fs, sec), r.dir)]

\* filesys_remove as one step.
filesys_remove(f, c, path) ==
  LET r == get_containing_dir(f, c, path)
  IN IF r.dir = NULL THEN [ok |-> FALSE, fs |-> r.fs]
     ELSE LET d == dir_remove(r.fs, r.dir, get_file_name(path))
          IN [ok |-> d.ok, fs |-> dir_close(d.fs, r.dir)]

\* The loop of write to the console with the same start for every putbuf.
RECURSIVE write_loop_same_start(_, _, _)
write_loop_same_start(length, written, out) ==
  IF length > 512
  THEN write_loop_same_start(length - 512, written + 512, Append(out, [ofs |-> 0, len |-> 512]))
  ELSE [console |-> Append(out, [ofs |-> 0, len |-> length]),
        written |-> written + length]

\* The loop of write to the console, and the putbuf after it.  A transfer is
\* the bytes buffer[ofs] .. buffer[ofs + len - 1].
RECURSIVE write_loop(_, _, _)
write_loop(length, written, out) ==
  IF length > 512
  THEN write_loop(length - 512, written + 512, Append(out, [ofs |-> written, len |-> 512]))
  ELSE [console |-> Append(out, [ofs |-> written, len |-> length]),
        written |-> written + length]

\* write to fd 1.
write_console(length) ==
  IF length < 512
  THEN [console |-> <<[ofs |-> 0, len |-> length]>>, written |-> length]
  ELSE write_loop(length, 0, <<>>)

\* The paths and the lengths the processes pass to whole system calls.
CallPaths == {<<"/", "a">>, <<"/", "a", "/", "b">>, <<"b">>, <<>>}
CallLengths == {1}

\* The string arguments: a pointer that check_valid_address refuses, or the
\* address of a path.
StrArgs ==
  {[ptr |-> a, path |-> <<>>] : a \in UserPtrs \ {StringAddr}}
  \cup {[ptr |-> StringAddr, path |-> s] : s \in CallPaths}

\* What last keeps of a system call.
CallRecord(op, p, ptr, path, fd, looked, ret, invoked) ==
  [NoLast EXCEPT !.op = op, !.proc = p, !.ptr = ptr, !.path = path, !.fd = fd,
                 !.looked = looked, !.ret = ret, !.invoked = invoked]

\* check_valid_address failed, or the call itself called exit(-1).
Terminate(p, op, ptr, fd, invoked) ==
  /\ exit(p, -1)
  /\ last' = CallRecord(op, p, ptr, <<>>, fd, fd, -1, invoked)
  /\ UNCHANGED <<fs, cwd, files, next_fd, kernel, opened, console>>

\* A path without a component reached the path resolver.
Panic(p, op, ptr, path) ==
  /\ kernel' = "panic"
  /\ last' = CallRecord(op, p, ptr, path, 0, 0, 0, TRUE)
  /\ UNCHANGED <<fs, cwd, files, next_fd, pc, th, opened, console>>

\* The call returned ret and left f as the file system.
Returned(p, op, ptr, path, fd, looked, ret, f) ==
  /\ fs' = f
  /\ last' = CallRecord(op, p, ptr, path, fd, looked, ret, TRUE)
  /\ UNCHANGED <<kernel, pc, th>>

\* The start of syscall_handler for a call that may take the lock.
CallStart(p) ==
  /\ CanCall(p)
  /\ filesys_lock = NoThread
  /\ ncalls' = ncalls + 1
  /\ UNCHANGED <<filesys_lock, held, gone, handles>>

CallExec(p, ptr) ==
  /\ CallStart(p)
  /\ IF ~check_valid_address(p, ptr) THEN Terminate(p, "exec", ptr, 0, FALSE)
     ELSE /\ Returned(p, "exec", ptr, <<>>, 0, 0, 0, fs)
          /\ UNCHANGED <<cwd, files, next_fd, opened, console>>

CallCreate(p, ptr, path) ==
  /\ CallStart(p)
  /\ IF ~check_valid_address(p, ptr) THEN Terminate(p, "create", ptr, 0, FALSE)
     ELSE IF NoToken(path) THEN Panic(p, "create", ptr, path)
     ELSE LET r == filesys_create(fs, cwd[p], path, FALSE)
          IN /\ Returned(p, "create", ptr, path, 0, 0, IF r.ok THEN 1 ELSE 0, r.fs)
             /\ UNCHANGED <<cwd, files, next_fd, opened, console>>

CallRemove(p, ptr, path) ==
  /\ CallStart(p)
  /\ IF ~check_valid_address(p, ptr) THEN Terminate(p, "remove", ptr, 0, FALSE)
     ELSE IF NoToken(path) THEN Panic(p, "remove", ptr, path)
     ELSE LET r == filesys_remove(fs, cwd[p], path)
          IN /\ Returned(p, "remove", ptr, path, 0, 0, IF r.ok THEN 1 ELSE 0, r.fs)
             /\ UNCHANGED <<cwd, files, next_fd, opened, console>>

CallOpen(p, ptr, path) ==
  /\ CallStart(p)
  /\ IF ~check_valid_address(p, ptr) THEN Terminate(p, "open", ptr, 0, FALSE)
     ELSE IF path = <<>>
     THEN /\ Returned(p, "open", ptr, path, 0, 0, -1, fs)
          /\ UNCHANGED <<cwd, files, next_fd, opened, console>>
     ELSE IF NoToken(path) THEN Panic(p, "open", ptr, path)
     ELSE LET r == filesys_open(fs, cwd[p], path)
              a == alloc_fd(next_fd)
          IN IF r.inode = NULL
             THEN /\ Returned(p, "open", ptr, path, 0, 0, -1, r.fs)
                  /\ UNCHANGED <<cwd, files, next_fd, opened, console>>
             ELSE /\ Returned(p, "open", ptr, path, a.fd, 0, a.fd, r.fs)
                  /\ next_fd' = a.next
                  /\ files' = [files EXCEPT ![p] = @ \cup
                                 {[fd |-> a.fd, isdir |-> r.fs.is_dir[r.inode],
                                   sector |-> r.inode, pos |-> 0]}]
                  /\ opened' = opened \cup {a.fd}
                  /\ UNCHANGED <<cwd, console>>

\* close: dir_close or file_close, then list_remove of the element found.
CallClose(p, fd) ==
  /\ CallStart(p)
  /\ IF find_file_elem(files, p, fd) = {} THEN Terminate(p, "close", NULL, fd, TRUE)
     ELSE LET fe == CHOOSE x \in find_file_elem(files, p, fd) : TRUE
          IN /\ Returned(p, "close", NULL, <<>>, fd, fd, 0, inode_close(fs, fe.sector))
             /\ files' = [q \in Procs |-> files[q] \ {fe}]
             /\ UNCHANGED <<cwd, next_fd, opened, console>>

CallFilesize(p, fd) ==
  /\ CallStart(p)
  /\ IF find_file_elem(files, p, fd) = {} THEN Terminate(p, "filesize", NULL, fd, TRUE)
     ELSE /\ Returned(p, "filesize", NULL, <<>>, fd, fd, 0, fs)
          /\ UNCHANGED <<cwd, files, next_fd, opened, console>>

CallSeek(p, fd) ==
  /\ CallStart(p)
  /\ IF find_file_elem(files, p, fd) = {} THEN Terminate(p, "seek", NULL, fd, TRUE)
     ELSE /\ Returned(p, "seek", NULL, <<>>, fd, fd, 0, fs)
          /\ UNCHANGED <<cwd, files, next_fd, opened, console>>

CallTell(p, fd) ==
  /\ CallStart(p)
  /\ IF find_file_elem(files, p, fd) = {} THEN Terminate(p, "tell", NULL, fd, TRUE)
     ELSE /\ Returned(p, "tell", NULL, <<>>, fd, fd, 0, fs)
          /\ UNCHANGED <<cwd, files, next_fd, opened, console>>

\* read: -1 for a buffer outside user space, for fd 1 and for an unknown fd.
CallRead(p, fd, ptr, length) ==
  /\ CallStart(p)
  /\ IF ~check_valid_address(p, ptr) THEN Terminate(p, "read", ptr, fd, FALSE)
     ELSE /\ Returned(p, "read", ptr, <<>>, fd, fd,
                      IF ~is_user_vaddr(ptr) \/ ~is_user_vaddr(ptr + length) THEN -1
                      ELSE IF fd = 0 THEN length
                      ELSE IF fd = 1 \/ find_file_elem(files, p, fd) = {} THEN -1
                      ELSE length, fs)
          /\ UNCHANGED <<cwd, files, next_fd, opened, console>>

\* write: exit(-1) for fd 0 and for an unknown fd; fd 1 goes to the console.
CallWrite(p, fd, ptr, length) ==
  /\ CallStart(p)
  /\ LET rec(ret, invoked) ==
           [CallRecord("write", p, ptr, <<>>, fd, fd, ret, invoked) EXCEPT !.length = length]
     IN IF ~check_valid_address(p, ptr) \/ fd = 0
           \/ (fd # 1 /\ find_file_elem(files, p, fd) = {})
        THEN /\ exit(p, -1)
             /\ last' = rec(-1, check_valid_address(p, ptr))
             /\ UNCHANGED <<fs, cwd, files, next_fd, kernel, opened, console>>
        ELSE /\ last' = rec(IF fd = 1 THEN write_console(length).written ELSE length, TRUE)
             /\ console' = IF fd = 1 THEN write_console(length).console ELSE console
             /\ UNCHANGED <<fs, cwd, files, next_fd, kernel, opened, pc, th>>

CallChdir(p, ptr, path) ==
  /\ CallStart(p)
  /\ IF ~check_valid_address(p, ptr) THEN Terminate(p, "chdir", ptr, 0, FALSE)
     ELSE IF NoToken(path) THEN Panic(p, "chdir", ptr, path)
     ELSE LET r == filesys_chdir(fs, cwd[p], path)
          IN /\ Returned(p, "chdir", ptr, path, 0, 0, IF r.ok THEN 1 ELSE 0, r.fs)
             /\ cwd' = [cwd EXCEPT ![p] = r.cwd]
             /\ UNCHANGED <<files, next_fd, opened, console>>

CallMkdir(p, ptr, path) ==
  /\ CallStart(p)
  /\ IF ~check_valid_address(p, ptr) THEN Terminate(p, "mkdir", ptr, 0, FALSE)
     ELSE IF path = <<>>
     THEN /\ Returned(p, "mkdir", ptr, path, 0, 0, 0, fs)
          /\ UNCHANGED <<cwd, files, next_fd, opened, console>>
     ELSE IF NoToken(path) THEN Panic(p, "mkdir", ptr, path)
     ELSE LET r == filesys_create(fs, cwd[p], path, TRUE)
          IN /\ Returned(p, "mkdir", ptr, path, 0, 0, IF r.ok THEN 1 ELSE 0, r.fs)
             /\ UNCHANGED <<cwd, files, next_fd, opened, console>>

\* readdir: syscall_handler passes (int *)(esp + 1), the place of the
\* argument, where readdir takes the fd; the user program passed fd.
CallReaddir(p, fd, ptr) ==
  /\ CallStart(p)
  /\ IF ~check_valid_address(p, ArgAddr) \/ ~check_valid_address(p, ptr)
     THEN Terminate(p, "readdir", ptr, fd, FALSE)
     ELSE LET looked == ArgAddr
              found == find_file_elem(files, p, looked)
          IN IF found = {} \/ \E x \in found : ~x.isdir
             THEN /\ Returned(p, "readdir", ptr, <<>>, fd, looked, 0, fs)
                  /\ UNCHANGED <<cwd, files, next_fd, opened, console>>
             ELSE LET fe == CHOOSE x \in found : TRUE
                      r == dir_readdir(fs, fe.sector, fe.pos)
                  IN /\ Returned(p, "readdir", ptr, <<>>, fd, looked,
                                 IF r.ok THEN 1 ELSE 0, fs)
                     /\ files' = [files EXCEPT ![p] =
                                    (@ \ {fe}) \cup {[fe EXCEPT !.pos = r.pos]}]
                     /\ UNCHANGED <<cwd, next_fd, opened, console>>

\* isdir: the same argument as readdir gets.
CallIsdir(p, fd) ==
  /\ CallStart(p)
  /\ IF ~check_valid_address(p, ArgAddr) THEN Terminate(p, "isdir", NULL, fd, FALSE)
     ELSE LET looked == ArgAddr
              found == find_file_elem(files, p, looked)
          IN /\ Returned(p, "isdir", NULL, <<>>, fd, looked,
                         IF found # {} /\ \A x \in found : x.isdir THEN 1 ELSE 0, fs)
             /\ UNCHANGED <<cwd, files, next_fd, opened, console>>

NextCalls ==
  \/ \E p \in Procs, ptr \in UserPtrs : CallExec(p, ptr)
  \/ \E p \in Procs, a \in StrArgs : CallCreate(p, a.ptr, a.path)
  \/ \E p \in Procs, a \in StrArgs : CallRemove(p, a.ptr, a.path)
  \/ \E p \in Procs, a \in StrArgs : CallOpen(p, a.ptr, a.path)
  \/ \E p \in Procs, fd \in 2..next_fd : CallClose(p, fd)
  \/ \E p \in Procs, fd \in 2..next_fd : CallFilesize(p, fd)
  \/ \E p \in Procs, fd \in 2..next_fd : CallSeek(p, fd)
  \/ \E p \in Procs, fd \in 2..next_fd : CallTell(p, fd)
  \/ \E p \in Procs, fd \in 0..next_fd, ptr \in UserPtrs, n \in CallLengths :
       CallRead(p, fd, ptr, n)
  \/ \E p \in Procs, fd \in 0..next_fd, ptr \in UserPtrs, n \in CallLengths :
       CallWrite(p, fd, ptr, n)
  \/ \E p \in Procs, a \in StrArgs : CallChdir(p, a.ptr, a.path)
  \/ \E p \in Procs, a \in StrArgs : CallMkdir(p, a.ptr, a.path)
  \/ \E p \in Procs, fd \in 2..next_fd, ptr \in UserPtrs : CallReaddir(p, fd, ptr)
  \/ \E p \in Procs, fd \in 2..next_fd : CallIsdir(p, fd)

\* The system calls of two processes, each call run to its end before the
\* next one begins.
SpecCalls == Init /\ [][NextCalls]_vars

\* write alone: the processes are about to write length bytes of a buffer,
\* for every length up to MaxLen, to stdin, to the console or to an fd that
\* is not open.
InitWrite ==
  /\ fs = FreshFs
  /\ cwd = [p \in Procs |-> NULL]
  /\ files = [p \in Procs |-> {}]
  /\ next_fd = 2
  /\ filesys_lock = NoThread
  /\ pc = [p \in Procs |-> "idle"]
  /\ th = [p \in Procs |-> NoCall]
  /\ kernel = "running"
  /\ ncalls = 0
  /\ \E n \in 0..MaxLen : last = [NoLast EXCEPT !.length = n]
  /\ held = [s \in Sectors |-> 0]
  /\ opened = {}
  /\ gone = {}
  /\ console = <<>>
  /\ handles = [h \in Handles |-> NoHandle]

NextWrite == \E p \in Procs, fd \in 0..2 : CallWrite(p, fd, StringAddr, last.length)

SpecWrite == InitWrite /\ [][NextWrite]_vars

\* ------------------------------------------------------- the lock, by step
\* A system call as the row of steps it still has to take: lock_acquire and
\* lock_release of filesys_lock, the work between them, and the return to
\* the user program or exit(-1) at its end.

\* write: stdin and an unknown fd end in exit(-1) before any lock is taken.
write(fl, p, fd) ==
  IF fd = 0 THEN <<"exit">>
  ELSE IF fd = 1 THEN <<"lock_acquire", "putbuf", "lock_release", "return">>
  ELSE IF find_file_elem(fl, p, fd) = {} THEN <<"exit">>
  ELSE <<"lock_acquire", "file_write", "lock_release", "return">>

\* read after find_file_elem, with no lock_release where the fd is unknown.
read_found_no_release(fe) ==
  IF fe = {} THEN <<"return">>
  ELSE <<"file_read", "lock_release", "return">>

\* read after find_file_elem, which it calls with the lock held.
read_found(fe) ==
  IF fe = {} THEN <<"lock_release", "return">>
  ELSE <<"file_read", "lock_release", "return">>

read(fd, buffer, length) ==
  IF ~is_user_vaddr(buffer) \/ ~is_user_vaddr(buffer + length) THEN <<"return">>
  ELSE IF fd = 0 THEN <<"input_getc", "return">>
  ELSE IF fd = 1 THEN <<"return">>
  ELSE <<"lock_acquire", "find_file_elem">>

seek(fl, p, fd) ==
  IF find_file_elem(fl, p, fd) = {} THEN <<"exit">>
  ELSE <<"lock_acquire", "file_seek", "lock_release", "return">>

tell(fl, p, fd) ==
  IF find_file_elem(fl, p, fd) = {} THEN <<"exit">>
  ELSE <<"lock_acquire", "file_tell", "lock_release", "return">>

close(fl, p, fd) ==
  IF find_file_elem(fl, p, fd) = {} THEN <<"exit">>
  ELSE <<"lock_acquire", "close_body", "lock_release", "return">>

filesize(fl, p, fd) ==
  IF find_file_elem(fl, p, fd) = {} THEN <<"exit">>
  ELSE <<"file_length", "return">>

exec(p, file) ==
  IF ~check_valid_address(p, file) THEN <<"exit">>
  ELSE <<"lock_acquire", "process_execute", "lock_release", "return">>

create(file) ==
  IF file = NULL THEN <<"exit">>
  ELSE <<"lock_acquire", "filesys_create", "lock_release", "return">>

remove(file) ==
  IF file = NULL THEN <<"exit">>
  ELSE <<"lock_acquire", "filesys_remove", "lock_release", "return">>

\* open up to the end of its first critical section.
open(file, path) ==
  IF file = NULL \/ path = <<>> THEN <<"return">>
  ELSE <<"lock_acquire", "filesys_open", "lock_release", "open_found">>

\* open after filesys_open: no file, no memory for the file_elem, or the
\* second critical section.
open_found(inode, nomem) ==
  IF inode = NULL THEN <<"return">>
  ELSE IF nomem THEN <<"file_close", "return">>
  ELSE <<"lock_acquire", "alloc_fd", "lock_release", "return">>

\* The calls of SpecLock and what they are called with.
LockOps ==
  {"exec", "create", "remove", "open", "filesize", "read", "write", "seek", "tell", "close"}
PtrCalls == {"exec", "create", "remove", "open", "read", "write"}
LockArgs ==
  {[ptr |-> NULL, path |-> <<>>], [ptr |-> UnmappedAddr, path |-> <<>>],
   [ptr |-> StringAddr, path |-> <<>>], [ptr |-> StringAddr, path |-> <<"b">>]}

\* syscall_handler: check_valid_address of the pointer argument, then the
\* call.
syscall_handler(op, fl, p, fd, ptr, path, length) ==
  IF op \in PtrCalls /\ ~check_valid_address(p, ptr) THEN <<"exit">>
  ELSE CASE op = "exec" -> exec(p, ptr)
         [] op = "create" -> create(ptr)
         [] op = "remove" -> remove(ptr)
         [] op = "open" -> open(ptr, path)
         [] op = "filesize" -> filesize(fl, p, fd)
         [] op = "read" -> read(fd, ptr, length)
         [] op = "write" -> write(fl, p, fd)
         [] op = "seek" -> seek(fl, p, fd)
         [] op = "tell" -> tell(fl, p, fd)
         [] op = "close" -> close(fl, p, fd)

\* The step the thread takes next.
AtStep(p, steps) ==
  kernel = "running" /\ pc[p] = "syscall" /\ th[p].prog # <<>> /\ Head(th[p].prog) \in steps

\* The entry of a system call.
LockCall(p, op, fd, a, nomem) ==
  /\ CanCall(p)
  /\ ncalls' = ncalls + 1
  /\ pc' = [pc EXCEPT ![p] = "syscall"]
  /\ th' = [th EXCEPT ![p] =
              [NoCall EXCEPT !.op = op, !.fd = fd, !.path = a.path, !.length = 1,
                             !.ok = nomem,
                             !.prog = syscall_handler(op, files, p, fd, a.ptr, a.path, 1)]]
  /\ UNCHANGED <<fs, cwd, files, next_fd, filesys_lock, kernel, last, held, opened, gone,
                 console, handles>>

\* lock_acquire: the thread waits while another thread holds the lock; a
\* thread that holds it already fails the assertion of lock_acquire.
LockAcquire(p) ==
  /\ AtStep(p, {"lock_acquire"})
  /\ filesys_lock \in {NoThread, p}
  /\ IF filesys_lock = p
     THEN /\ kernel' = "panic"
          /\ UNCHANGED <<filesys_lock, th>>
     ELSE /\ filesys_lock' = p
          /\ th' = [th EXCEPT ![p].prog = Tail(@), ![p].acquired = @ + 1]
          /\ UNCHANGED kernel
  /\ UNCHANGED <<fs, cwd, files, next_fd, pc, ncalls, last, held, opened, gone, console,
                 handles>>

\* lock_release: a thread that does not hold the lock fails its assertion.
LockRelease(p) ==
  /\ AtStep(p, {"lock_release"})
  /\ IF filesys_lock # p
     THEN /\ kernel' = "panic"
          /\ UNCHANGED <<filesys_lock, th>>
     ELSE /\ filesys_lock' = NoThread
          /\ th' = [th EXCEPT ![p].prog = Tail(@), ![p].released = @ + 1]
          /\ UNCHANGED kernel
  /\ UNCHANGED <<fs, cwd, files, next_fd, pc, ncalls, last, held, opened, gone, console,
                 handles>>

\* The work on files that are open: it changes neither the tables nor the
\* lists of the threads.
LockFileWork(p) ==
  /\ AtStep(p, {"file_write", "file_read", "file_seek", "file_tell", "file_length",
                "input_getc", "process_execute"})
  /\ th' = [th EXCEPT ![p].prog = Tail(@)]
  /\ UNCHANGED <<fs, cwd, files, next_fd, filesys_lock, pc, kernel, ncalls, last, held,
                 opened, gone, console, handles>>

LockPutbuf(p) ==
  /\ AtStep(p, {"putbuf"})
  /\ console' = console \o write_console(th[p].length).console
  /\ th' = [th EXCEPT ![p].prog = Tail(@)]
  /\ UNCHANGED <<fs, cwd, files, next_fd, filesys_lock, pc, kernel, ncalls, last, held,
                 opened, gone, handles>>

\* find_file_elem in read.
LockFind(p) ==
  /\ AtStep(p, {"find_file_elem"})
  /\ th' = [th EXCEPT ![p].prog = read_found(find_file_elem(files, p, th[p].fd))]
  /\ UNCHANGED <<fs, cwd, files, next_fd, filesys_lock, pc, kernel, ncalls, last, held,
                 opened, gone, console, handles>>

\* filesys_create and filesys_remove; a path without a component ends in a
\* kernel panic.
LockCreateRemove(p) ==
  /\ AtStep(p, {"filesys_create", "filesys_remove"})
  /\ IF NoToken(th[p].path)
     THEN /\ kernel' = "panic"
          /\ UNCHANGED <<fs, th>>
     ELSE /\ fs' = IF Head(th[p].prog) = "filesys_create"
                   THEN filesys_create(fs, cwd[p], th[p].path, FALSE).fs
                   ELSE filesys_remove(fs, cwd[p], th[p].path).fs
          /\ th' = [th EXCEPT ![p].prog = Tail(@)]
          /\ UNCHANGED kernel
  /\ UNCHANGED <<cwd, files, next_fd, filesys_lock, pc, ncalls, last, held, opened, gone,
                 console, handles>>

LockFilesysOpen(p) ==
  /\ AtStep(p, {"filesys_open"})
  /\ IF NoToken(th[p].path)
     THEN /\ kernel' = "panic"
          /\ UNCHANGED <<fs, th>>
     ELSE LET r == filesys_open(fs, cwd[p], th[p].path)
          IN /\ fs' = r.fs
             /\ th' = [th EXCEPT ![p].prog = Tail(@), ![p].inode = r.inode]
             /\ UNCHANGED kernel
  /\ UNCHANGED <<cwd, files, next_fd, filesys_lock, pc, ncalls, last, held, opened, gone,
                 console, handles>>

\* The tests of open after its first critical section; th[p].ok says that
\* malloc returns null.
LockOpenFound(p) ==
  /\ AtStep(p, {"open_found"})
  /\ th' = [th EXCEPT ![p].prog = open_found(th[p].inode, th[p].ok)]
  /\ UNCHANGED <<fs, cwd, files, next_fd, filesys_lock, pc, kernel, ncalls, last, held,
                 opened, gone, console, handles>>

\* file_close of the file open found, without a file_elem for it.
LockFileClose(p) ==
  /\ AtStep(p, {"file_close"})
  /\ fs' = inode_close(fs, th[p].inode)
  /\ th' = [th EXCEPT ![p].prog = Tail(@), ![p].inode = NULL]
  /\ UNCHANGED <<cwd, files, next_fd, filesys_lock, pc, kernel, ncalls, last, held,
                 opened, gone, console, handles>>

\* The second critical section of open.
LockAllocFd(p) ==
  /\ AtStep(p, {"alloc_fd"})
  /\ LET a == alloc_fd(next_fd)
     IN /\ next_fd' = a.next
        /\ files' = [files EXCEPT ![p] = @ \cup
                       {[fd |-> a.fd, isdir |-> fs.is_dir[th[p].inode],
                         sector |-> th[p].inode, pos |-> 0]}]
        /\ opened' = opened \cup {a.fd}
        /\ th' = [th EXCEPT ![p].prog = Tail(@), ![p].inode = NULL]
  /\ UNCHANGED <<fs, cwd, filesys_lock, pc, kernel, ncalls, last, held, gone, console,
                 handles>>

\* close between its lock_acquire and lock_release.
LockCloseBody(p) ==
  /\ AtStep(p, {"close_body"})
  /\ LET fe == CHOOSE x \in find_file_elem(files, p, th[p].fd) : TRUE
     IN /\ fs' = inode_close(fs, fe.sector)
        /\ files' = [files EXCEPT ![p] = @ \ {fe}]
  /\ th' = [th EXCEPT ![p].prog = Tail(@)]
  /\ UNCHANGED <<cwd, next_fd, filesys_lock, pc, kernel, ncalls, last, held, opened, gone,
                 console, handles>>

\* The return to the user program.
LockReturn(p) ==
  /\ AtStep(p, {"return"})
  /\ Return(p)
  /\ UNCHANGED <<fs, cwd, files, next_fd, filesys_lock, kernel, ncalls, last, held, opened,
                 gone, console, handles>>

\* exit(-1).
LockExit(p) ==
  /\ AtStep(p, {"exit"})
  /\ exit(p, -1)
  /\ UNCHANGED <<fs, cwd, files, next_fd, filesys_lock, kernel, ncalls, last, held, opened,
                 gone, console, handles>>

NextLock ==
  \/ \E p \in Procs, op \in LockOps \ {"open"}, fd \in 0..next_fd, a \in LockArgs :
       LockCall(p, op, fd, a, FALSE)
  \/ \E p \in Procs, a \in LockArgs, nomem \in BOOLEAN : LockCall(p, "open", 0, a, nomem)
  \/ \E p \in Procs : LockAcquire(p)
  \/ \E p \in Procs : LockRelease(p)
  \/ \E p \in Procs : LockFileWork(p)
  \/ \E p \in Procs : LockPutbuf(p)
  \/ \E p \in Procs : LockFind(p)
  \/ \E p \in Procs : LockCreateRemove(p)
  \/ \E p \in Procs : LockFilesysOpen(p)
  \/ \E p \in Procs : LockOpenFound(p)
  \/ \E p \in Procs : LockFileClose(p)
  \/ \E p \in Procs : LockAllocFd(p)
  \/ \E p \in Procs : LockCloseBody(p)
  \/ \E p \in Procs : LockReturn(p)
  \/ \E p \in Procs : LockExit(p)

\* The system calls of two processes, interleaved at every lock_acquire,
\* lock_release and piece of work between them.
SpecLock == Init /\ [][NextLock]_vars

\* ------------------------------------------------------------------ claims
\* C1: under every interleaving of create, mkdir and remove by several
\* processes, no directory table holds two in_use entries with one name.
C1_NameUniqueness ==
  \A d \in Sectors : \A i, j \in InUse(fs, d) :
    fs.entries[d][i].name = fs.entries[d][j].name => i = j

\* The places of a system call that lie inside file system work.
FsWork ==
  {"fc_resolve", "da_check", "da_write", "fc_done", "fr_resolve", "dr_check",
   "dr_erase", "dr_failed", "fr_done", "fo_body", "close_body"}

\* C2: a thread inside the file system work of a system call holds
\* filesys_lock, so no two threads are inside file system work at once.
C2_GlobalLockSerialization ==
  /\ \A p \in Procs : pc[p] \in FsWork => filesys_lock = p
  /\ \A p, q \in Procs : pc[p] \in FsWork /\ pc[q] \in FsWork => p = q

\* C3: remove of a directory fails while a handle other than its own is on
\* the directory, and succeeds when no thread holds another handle on it,
\* it is empty and it is not the root.
C3_OpenHandleGuard ==
  \A p \in Procs :
    pc[p] \in {"dr_erase", "dr_failed"} /\ th[p].inode # NULL /\ fs.is_dir[th[p].inode]
    => /\ th[p].refs > 1 => pc[p] = "dr_failed"
       /\ (th[p].refs = 1 /\ th[p].empty /\ th[p].inode # ROOT_DIR_SECTOR)
            => pc[p] = "dr_erase"

C6_RoundTrip ==
  /\ (last.op = "add" /\ last.ok)
       => /\ last.name # <<>> /\ Len(last.name) <= NAME_MAX
          /\ dir_lookup(fs, last.dir, last.name).inode = last.target
  /\ (last.op = "remove" /\ last.ok)
       => dir_lookup(fs, last.dir, last.name).inode = NULL

\* A name was removed from a directory that still holds another entry.
C6_Witness ==
  last.op = "remove" /\ last.ok /\ InUse(fs, last.dir) # {}

\* C7: after get_containing_dir every inode has the open count it had before
\* the call, but for one more on the directory returned.
C7_ResolveReleasesHandles ==
  (last.op = "resolve" /\ last.tokens)
  => \A s \in Sectors :
       fs.open_cnt[s] = last.before[s] + (IF last.ok /\ s = last.dir THEN 1 ELSE 0)

\* C8: a path one of whose components before the last names a plain file
\* does not resolve.
C8_NotADirectory ==
  (last.op = "resolve" /\ last.hit_file) => ~last.ok

\* The paths "a/../a/b" and "/a/b", and the relative paths a "d/.." pair is
\* put in front of.
PathDotDot == <<"a", "/", ".", ".", "/", "a", "/", "b">>
PathPlain == <<"/", "a", "/", "b">>
RelPaths ==
  { <<"a", "/", "b">>, <<"a">>, <<"b", "/", ".", ".", "/", "a">>,
    <<".", ".", "/", ".">>, <<"b", "/", "a", "/", "b">> }

\* The sector get_containing_dir returns; its effect on the open counts is C7's.
ContainingDir(f, c, path) == get_containing_dir(f, c, path).dir

\* The subdirectories of directory d: the names of its in_use entries whose
\* target is a directory other than the root.
SubDirs(f, d) ==
  {f.entries[d][i].name : i \in {j \in InUse(f, d) :
      f.is_dir[f.entries[d][j].inode_sector]
      /\ f.entries[d][j].inode_sector # ROOT_DIR_SECTOR}}

\* C9: from the root as working directory "a/../a/b" resolves to the
\* directory and leaf of "/a/b"; and from any directory, a pair "d/.." in
\* front of a path, d a subdirectory, changes neither.
C9_DotDotEquivalence ==
  /\ \A c \in {NULL, ROOT_DIR_SECTOR} :
       /\ ContainingDir(fs, c, PathDotDot) = ContainingDir(fs, c, PathPlain)
       /\ get_file_name(PathDotDot) = get_file_name(PathPlain)
  /\ (last.op = "resolve" /\ last.path = PathDotDot /\ last.cwd \in {NULL, ROOT_DIR_SECTOR})
       => last.dir = ContainingDir(fs, last.cwd, PathPlain)
  /\ \A c \in Dirs(fs) : \A d \in SubDirs(fs, c) : \A r \in RelPaths :
       /\ ContainingDir(fs, c, d \o <<"/", ".", ".", "/">> \o r) = ContainingDir(fs, c, r)
       /\ get_file_name(d \o <<"/", ".", ".", "/">> \o r) = get_file_name(r)

\* With the tree /a/b and the root as working directory, "a/../a/b" resolved
\* to directory /a.
C9_Witness ==
  /\ last.op = "resolve" /\ last.path = PathDotDot /\ last.cwd = ROOT_DIR_SECTOR
  /\ last.ok /\ last.leaf = <<"b">>
  /\ lookup(fs, ROOT_DIR_SECTOR, <<"a">>) # 0
  /\ last.dir = fs.entries[ROOT_DIR_SECTOR][lookup(fs, ROOT_DIR_SECTOR, <<"a">>)].inode_sector
  /\ lookup(fs, last.dir, <<"b">>) # 0

\* A path of separators only, or of "." and ".." components only.
OnlyDots(path) ==
  \A i \in 1..Len(Tokens(path)) : Tokens(path)[i] \in {DOT, DOTDOT}

\* C10: such a path resolves to a directory and an empty leaf name.
C10_EmptyLeaf ==
  (last.op = "resolve" /\ OnlyDots(last.path))
  => kernel = "running" /\ last.dir # NULL /\ last.leaf = <<>>

\* C12: no fd table holds fd 0 or 1 or two entries with one fd, and the fd a
\* successful open is about to return is at least 2 and differs from every
\* fd an open has returned before and from the fd any other open is about
\* to return.
C12_FreshDescriptors ==
  /\ \A p \in Procs : \A x, y \in files[p] :
        x.fd >= 2 /\ (x.fd = y.fd => x = y)
  /\ \A p \in Procs : (pc[p] = "open_done" /\ th[p].fd # -1)
        => /\ th[p].fd >= 2
           /\ th[p].fd \notin opened
           /\ \A q \in Procs \ {p} : pc[q] = "open_done" => th[q].fd # th[p].fd

\* Both processes are about to return from a successful open, after an
\* earlier open returned.
C12_Witness ==
  /\ opened # {}
  /\ \A p \in Procs : pc[p] = "open_done" /\ th[p].fd >= 2

\* C13: an open whose path a remove returned true for before it began, with
\* no create or mkdir since, returns -1.
C13_RemoveBeforeOpen ==
  \A p \in Procs :
    (th[p].op = "open" /\ th[p].after_remove /\ pc[p] \in {"open_ins", "open_done"})
    => pc[p] = "open_done" /\ th[p].fd = -1

\* C11: close of an fd of the caller's own table removes that entry alone and
\* takes one off the open count of its inode; close, seek, tell or filesize
\* of an fd that is not in the caller's table (never opened, closed before,
\* or another process's) ends the caller with status -1 and leaves every fd
\* table and every open count as it was.
C11_CloseAndOwnership ==
  [][(ncalls' = ncalls + 1 /\ last'.op \in {"close", "seek", "tell", "filesize"})
     => LET p == last'.proc
            own == {x \in files[p] : x.fd = last'.fd}
        IN IF own = {}
           THEN /\ pc'[p] = "exited" /\ th'[p].exit_status = -1
                /\ files' = files
                /\ fs'.open_cnt = fs.open_cnt
           ELSE last'.op = "close"
                => /\ pc'[p] = "idle"
                   /\ \E fe \in own :
                        /\ files' = [files EXCEPT ![p] = @ \ {fe}]
                        /\ fs'.open_cnt = [fs.open_cnt EXCEPT ![fe.sector] = @ - 1]]_vars

\* A process was ended by close of an fd that is in the other process's table.
C11_Witness ==
  /\ last.op = "close" /\ pc[last.proc] = "exited"
  /\ th[last.proc].exit_status = -1
  /\ \E q \in Procs \ {last.proc} : \E x \in files[q] : x.fd = last.fd

\* The system calls that take a pointer, and the pointers that are null,
\* outside the user address range, or on no page of the caller.
PtrOps == {"exec", "create", "remove", "open", "read", "write", "chdir", "mkdir", "readdir"}
BadPtrs == {NULL, PHYS_BASE, UnmappedAddr}

\* C14: a system call with a pointer argument that is null, outside the user
\* range or unmapped ends the caller with status -1; the operation is not
\* called, and the file system, the fd tables, the working directories and
\* the console stay as they were.
C14_FaultTermination ==
  [][(ncalls' = ncalls + 1 /\ last'.op \in PtrOps /\ last'.ptr \in BadPtrs)
     => /\ pc'[last'.proc] = "exited" /\ th'[last'.proc].exit_status = -1
        /\ ~last'.invoked
        /\ fs' = fs /\ files' = files /\ cwd' = cwd /\ next_fd' = next_fd
        /\ console' = console /\ kernel' = kernel]_vars

\* mkdir of an unmapped address ended its caller while the root has an entry.
C14_Witness ==
  /\ last.op = "mkdir" /\ last.ptr = UnmappedAddr
  /\ pc[last.proc] = "exited" /\ th[last.proc].exit_status = -1
  /\ InUse(fs, ROOT_DIR_SECTOR) # {}

\* C15: isdir(fd) returns true when fd is in the caller's table and was
\* opened on a directory, and false otherwise.
C15_IsdirThroughSyscall ==
  last.op = "isdir"
  => last.ret = IF \E x \in files[last.proc] : x.fd = last.fd /\ x.isdir THEN 1 ELSE 0

\* The bytes of the buffer one transfer carries, each named by its index in
\* the buffer, and the bytes a sequence of transfers carries, in order.
Bytes(t) == [i \in 1..t.len |-> t.ofs + i - 1]

RECURSIVE Delivered(_)
Delivered(out) == IF out = <<>> THEN <<>> ELSE Bytes(Head(out)) \o Delivered(Tail(out))

\* C16: write(1, buf, n) gives the console transfers of at most 512 bytes
\* each, which put together are buf[0..n) in order, and returns n.
C16_ChunkedConsoleWrite ==
  (last.op = "write" /\ last.fd = 1 /\ last.invoked)
  => /\ \A i \in 1..Len(console) : console[i].len >= 0 /\ console[i].len <= 512
     /\ Delivered(console) = [i \in 1..last.length |-> i - 1]
     /\ last.ret = last.length

\* 1300 bytes went to the console in three transfers.
C16_Witness ==
  /\ last.op = "write" /\ last.fd = 1 /\ last.length = 1300
  /\ Len(console) = 3 /\ last.ret = 1300

C18_FailedAddNoChange ==
  (last.op = "add" /\ ~last.ok)
  => ~last.new_entry /\ last.parent_after = last.parent_before

\* C19: every in_use entry of a directory D whose target C is a directory
\* has D as the parent stored in C, so ".." from C opens D; and the root is
\* its own parent.
C19_ParentBackLink ==
  /\ fs.parent[ROOT_DIR_SECTOR] = ROOT_DIR_SECTOR
  /\ \A D \in Dirs(fs) : \A i \in InUse(fs, D) :
       LET C == fs.entries[D][i].inode_sector
       IN fs.is_dir[C] => fs.parent[C] = D /\ dir_get_parent(fs, C).inode = D

\* After an add and a remove that succeeded, a directory below the root
\* holds a directory.
C19_Witness ==
  /\ last.op = "remove" /\ last.ok
  /\ \E D \in Dirs(fs) \ {ROOT_DIR_SECTOR} : \E i \in InUse(fs, D) :
       fs.is_dir[fs.entries[D][i].inode_sector]

\* The names of the in_use entries among the first pos slots of directory
\* d, in the order of the slots.
RECURSIVE NamesUpTo(_, _, _)
NamesUpTo(f, d, pos) ==
  IF pos = 0 THEN <<>>
  ELSE IF f.entries[d][pos].in_use
       THEN Append(NamesUpTo(f, d, pos - 1), f.entries[d][pos].name)
       ELSE NamesUpTo(f, d, pos - 1)

\* C20: on a handle opened at position 0 on a directory that has not been
\* changed since, the names dir_readdir has returned are those of the in_use
\* entries before the cursor, each once and in the order of the slots; the
\* cursor stands after the entry returned last, and at the end of the table
\* once dir_readdir has returned false, so that every further call returns
\* false.  This holds of each handle whatever was called on the other one.
C20_Enumeration ==
  \A h \in Handles :
    LET H == handles[h] IN
    (H.dir # NULL /\ ~H.dirty /\ fs.entries[H.dir] = H.tab)
    => /\ H.pos <= Len(fs.entries[H.dir])
       /\ H.names = NamesUpTo(fs, H.dir, H.pos)
       /\ H.ret = "true" => H.pos >= 1 /\ fs.entries[H.dir][H.pos].in_use
       /\ H.ret = "false" => /\ H.pos = Len(fs.entries[H.dir])
                             /\ ~dir_readdir(fs, H.dir, H.pos).ok

\* One handle has gone past an unused slot, returned a name and then false,
\* while the other handle on the same directory has not moved yet.
C20_Witness ==
  \E h, k \in Handles :
    /\ h # k /\ handles[h].dir # NULL /\ handles[k].dir = handles[h].dir
    /\ ~handles[h].dirty /\ fs.entries[handles[h].dir] = handles[h].tab
    /\ handles[h].ret = "false" /\ Len(handles[h].names) >= 1
    /\ \E i \in 1..Len(handles[h].tab) : ~handles[h].tab[i].in_use
    /\ handles[k].pos = 0 /\ handles[k].ret = "none"

\* The step a thread inside a system call of SpecLock is at.
AtHead(p) == IF pc[p] = "syscall" /\ th[p].prog # <<>> THEN Head(th[p].prog) ELSE "none"

\* C21: a thread that is about to return from a system call or to end in
\* exit(-1), and one that is outside any call or has exited, does not hold
\* filesys_lock, and has released the lock as often as it acquired it; inside
\* a call it has acquired the lock once more than it released it when it
\* holds the lock and as often when it does not, it calls lock_acquire only
\* without the lock and lock_release only with it.
C21_LockDiscipline ==
  \A p \in Procs :
    /\ pc[p] \in {"idle", "exited"} => filesys_lock # p
    /\ AtHead(p) \in {"return", "exit"}
         => filesys_lock # p /\ th[p].acquired = th[p].released
    /\ pc[p] = "syscall"
         => th[p].acquired - th[p].released = (IF filesys_lock = p THEN 1 ELSE 0)
    /\ AtHead(p) = "lock_acquire" => filesys_lock # p
    /\ AtHead(p) = "lock_release" => filesys_lock = p

\* A read of an fd that is not open has taken the lock and given it back and
\* is about to return, after the other process ended in exit(-1).
C21_Witness ==
  \E p, q \in Procs :
    /\ p # q /\ pc[q] = "exited" /\ th[q].exit_status = -1
    /\ th[p].op = "read" /\ th[p].fd >= 2 /\ find_file_elem(files, p, th[p].fd) = {}
    /\ AtHead(p) = "return" /\ th[p].acquired = 1 /\ th[p].released = 1

====
